---- MODULE Spec2Model ----
(***************************************************************************)
(* Model of createStore (the store engine): current state, the handler    *)
(* table, the listener registry and the past/future history stacks, with  *)
(* dispatch, subscribe/unsubscribe, undo and redo.                         *)
(*                                                                         *)
(* A state snapshot is a record [id, val]: id is the identity of the       *)
(* JavaScript object (two snapshots are the same object iff their ids are  *)
(* equal), val is its content, the README's counter shape {count: n}.      *)
(***************************************************************************)
EXTENDS Integers, Sequences, FiniteSets, TLC

\* handlers, state, past (history.past), future (history.future), listeners:
\* the variables createStore closes over.  nextEntry counts the subscribe calls
\* made (the identity of the next registry entry).  The last three record the
\* latest call for the properties below: last is the call and how it ended,
\* pre is state/past/future when it began, calls is the sequence of listener
\* invocations it made.
VARIABLES handlers, state, past, future, listeners, nextEntry, calls, last, pre

\* frozen: the identities of the objects Object.freeze was applied to (followed
\* by SpecAlias only).  scn: the shape of the run so far, for the runs made of
\* dispatches, then undos, then redos (followed by SpecScenario only).
VARIABLES frozen, scn

vars == <<handlers, state, past, future, listeners, nextEntry, calls, last, pre,
          frozen, scn>>

(* ------------------------------ bounds --------------------------------- *)

\* a dispatch that pushes onto past is made only while past is shorter than this
\* (it also caps the counter: each push adds at most 1 to count)
MaxHist == 2
\* the same cap for the runs of SpecScenario
MaxScenario == 3
\* number of subscribe calls made on the store
MaxSubs == 2

\* amounts handed to dispatch as the payload of add; the other handlers ignore
\* their payload, and 0 is written for it
Payloads == {0, 1}
\* values Date.now() returns
Timestamps == {0, 1}
\* callback functions a caller subscribes
Callbacks == {"f"}

(* --------------------------- handler tables ---------------------------- *)

\* the README's store: increment and add
ReadmeHandlers ==
    ("increment" :> "increment") @@ ("add" :> "add")

\* a table whose action names collide with the transition tags and the
\* wildcard, and that has a handler that throws
TagHandlers ==
    ("UNDO" :> "increment") @@ ("REDO" :> "add") @@ ("*" :> "add")
        @@ ("fail" :> "throwing")

HandlerTables == {ReadmeHandlers, TagHandlers}

\* properties every plain object inherits: handlers[name] finds them too
ObjectPrototype ==
    ("toString" :> "Object.prototype.toString")
        @@ ("valueOf" :> "Object.prototype.valueOf")

\* config.handlers[actionType]: own property, else inherited, else undefined
Lookup(table, actionType) ==
    IF actionType \in DOMAIN table THEN table[actionType]
    ELSE IF actionType \in DOMAIN ObjectPrototype THEN ObjectPrototype[actionType]
    ELSE "undefined"

\* action names callers dispatch on a store with this table: its own names, the
\* inherited ones, and one name found nowhere
ActionTypes(table) ==
    DOMAIN table \cup DOMAIN ObjectPrototype \cup {"missing"}

\* filters callers subscribe with
Filters == {"increment", "UNDO", "REDO", "*"}

\* payloads callers dispatch for a handler
PayloadsFor(handler) == IF handler = "add" THEN Payloads ELSE {0}

(* ------------------------------ handlers ------------------------------- *)

\* Running handler h on a draft of base with the payload: the draft's content
\* when the handler ends, and whether it ended by throwing.
Recipe(h, base, payload) ==
    CASE h = "increment" ->
            [threw |-> FALSE, draft |-> [count |-> base.count + 1]]
      [] h = "add" ->
            [threw |-> FALSE, draft |-> [count |-> base.count + payload]]
      [] h = "throwing" ->
            [threw |-> TRUE, draft |-> [count |-> base.count + 1]]
      [] h = "Object.prototype.toString" ->
            [threw |-> FALSE, draft |-> base]
      [] h = "Object.prototype.valueOf" ->
            [threw |-> TRUE, draft |-> base]

\* identities of the snapshots the store holds
Held == {state.id} \cup {past[i].id : i \in DOMAIN past}
            \cup {future[i].id : i \in DOMAIN future}

\* identity of a newly allocated object
FreshId == CHOOSE i \in 0..Cardinality(Held) : i \notin Held

\* produce(base, recipe) for a recipe that returned normally: the base object
\* itself when the draft was not changed, else a new object
Produce(base, draft) ==
    IF draft = base.val THEN base ELSE [id |-> FreshId, val |-> draft]

(* ----------------------------- notification ---------------------------- *)

\* listeners.filter((l) => l.actionType === key || l.actionType === "*")
Matching(ls, key) ==
    SelectSeq(ls, LAMBDA l : l.actionType = key \/ l.actionType = "*")

\* mutant of Notify: the entries are walked from the last to the first
NotifyLastFirst(ls, s, context) ==
    [i \in 1..Len(ls) |->
        [entry |-> ls[Len(ls) + 1 - i].id, listener |-> ls[Len(ls) + 1 - i].listener,
         state |-> s, context |-> context]]

\* .forEach((l) => l.listener(s, context)): one invocation per entry, in order
Notify(ls, s, context) ==
    [i \in 1..Len(ls) |->
        [entry |-> ls[i].id, listener |-> ls[i].listener,
         state |-> s, context |-> context]]

\* state, past and future as one record
Snapshot == [state |-> state, past |-> past, future |-> future]

(* ------------------------------- dispatch ------------------------------ *)

\* mutant of DispatchHistory: the state is put at the front of past
DispatchHistoryUnshift(p, s, f) == [past |-> <<s>> \o p, future |-> <<>>]

\* mutant of DispatchHistory: future is carried over
DispatchHistoryKeepsFuture(p, s, f) == [past |-> Append(p, s), future |-> f]

\* history = { past: [...history.past, state], future: [] }
DispatchHistory(p, s, f) == [past |-> Append(p, s), future |-> <<>>]

DispatchContext(actionType, payload, now) ==
    [action |-> "DISPATCH", method |-> actionType, payload |-> payload,
     timestamp |-> now]

DispatchUpTo(limit) ==
    \E actionType \in ActionTypes(handlers) :
      \E payload \in PayloadsFor(Lookup(handlers, actionType)) :
        LET handler == Lookup(handlers, actionType)
            call == [op |-> "dispatch", actionType |-> actionType,
                     payload |-> payload]
        IN  /\ pre' = Snapshot
            /\ UNCHANGED <<handlers, listeners, nextEntry>>
            /\ IF handler = "undefined"
               THEN /\ last' = call @@ [outcome |-> "threw"]
                    /\ calls' = <<>>
                    /\ UNCHANGED <<state, past, future>>
               ELSE LET r == Recipe(handler, state.val, payload)
                        h == DispatchHistory(past, state, future)
                    IN  /\ Len(past) < limit
                        /\ past' = h.past
                        /\ future' = h.future
                        /\ IF r.threw
                           THEN /\ state' = state
                                /\ calls' = <<>>
                                /\ last' = call @@ [outcome |-> "threw"]
                           ELSE /\ state' = Produce(state, r.draft)
                                /\ \E now \in Timestamps :
                                     calls' = Notify(Matching(listeners, actionType),
                                                     state',
                                                     DispatchContext(actionType, payload, now))
                                /\ last' = call @@ [outcome |-> "returned"]

Dispatch == DispatchUpTo(MaxHist)

(* ------------------------------ subscribe ------------------------------ *)

Subscribe ==
    \E actionType \in Filters, listener \in Callbacks :
        LET entry == [id |-> nextEntry, actionType |-> actionType,
                      listener |-> listener]
        IN  /\ nextEntry < MaxSubs
            /\ listeners' = Append(listeners, entry)
            /\ nextEntry' = nextEntry + 1
            /\ calls' = <<>>
            /\ last' = [op |-> "subscribe", entry |-> entry.id,
                        outcome |-> "returned"]
            /\ pre' = Snapshot
            /\ UNCHANGED <<handlers, state, past, future>>

\* mutant of IndexOf: an entry that is not found gives the place splice(-1, 1)
\* removes from, the last one
IndexOfOrLast(ls, id) ==
    IF \E i \in DOMAIN ls : ls[i].id = id
    THEN CHOOSE i \in DOMAIN ls : ls[i].id = id
    ELSE Len(ls)

\* listeners.indexOf(entry): 0 stands for -1 (not found)
IndexOf(ls, id) ==
    IF \E i \in DOMAIN ls : ls[i].id = id
    THEN CHOOSE i \in DOMAIN ls : ls[i].id = id
    ELSE 0

\* listeners.splice(index, 1)
Splice(ls, index) ==
    SubSeq(ls, 1, index - 1) \o SubSeq(ls, index + 1, Len(ls))

\* the closure subscribe returned for entry id, called
Unsubscribe ==
    \E id \in 0..(nextEntry - 1) :
        LET index == IndexOf(listeners, id)
        IN  /\ listeners' = IF index > 0 THEN Splice(listeners, index)
                            ELSE listeners
            /\ calls' = <<>>
            /\ last' = [op |-> "unsubscribe", entry |-> id,
                        outcome |-> "returned", found |-> index > 0]
            /\ pre' = Snapshot
            /\ UNCHANGED <<handlers, state, past, future, nextEntry>>

(* ------------------------------ undo / redo ---------------------------- *)

\* mutant of UndoFuture: the state is put at the end of future
UndoFuturePush(s, f) == f \o <<s>>

\* history.future = [state, ...history.future]
UndoFuture(s, f) == <<s>> \o f
\* mutant of Undo: the listeners are notified whether or not past is empty
UndoNotifiesFirst ==
    /\ pre' = Snapshot
    /\ UNCHANGED <<handlers, listeners, nextEntry>>
    /\ IF Len(past) = 0
       THEN /\ last' = [op |-> "undo", outcome |-> "returned", ret |-> FALSE]
            /\ UNCHANGED <<state, past, future>>
       ELSE /\ future' = <<state>> \o future
            /\ state' = past[Len(past)]
            /\ past' = SubSeq(past, 1, Len(past) - 1)
            /\ last' = [op |-> "undo", outcome |-> "returned", ret |-> TRUE]
    /\ \E now \in Timestamps :
         calls' = Notify(Matching(listeners, "UNDO"), state',
                         [action |-> "UNDO", timestamp |-> now])

\* mutant of UndoState: the oldest entry of past is taken
UndoStateOldest(p) == p[1]

\* mutant of UndoPast: past keeps its last entry
UndoPastKeeps(p) == p

\* the call before this one was a dispatch that returned
AfterDispatch == last.op = "dispatch" /\ last.outcome = "returned"

\* state = history.past[history.past.length - 1]
UndoState(p) == p[Len(p)]
\* history.past = history.past.slice(0, -1)
UndoPast(p) == SubSeq(p, 1, Len(p) - 1)

Undo ==
    /\ pre' = Snapshot
    /\ UNCHANGED <<handlers, listeners, nextEntry>>
    /\ IF Len(past) = 0
       THEN /\ last' = [op |-> "undo", outcome |-> "returned", ret |-> FALSE]
            /\ calls' = <<>>
            /\ UNCHANGED <<state, past, future>>
       ELSE /\ future' = UndoFuture(state, future)
            /\ state' = UndoState(past)
            /\ past' = UndoPast(past)
            /\ \E now \in Timestamps :
                 calls' = Notify(Matching(listeners, "UNDO"), state',
                                 [action |-> "UNDO", timestamp |-> now])
            /\ last' = [op |-> "undo", outcome |-> "returned", ret |-> TRUE,
                        afterDispatch |-> AfterDispatch]

\* the call before this one was an undo() that returned true
AfterUndo == last.op = "undo" /\ last.ret

\* mutant of RedoPast: the state is put at the front of past
RedoPastUnshift(p, s) == <<s>> \o p

\* mutant of RedoState: the furthest entry of future is taken
RedoStateFurthest(f) == f[Len(f)]

\* history.past = [...history.past, state]
RedoPast(p, s) == Append(p, s)
\* state = history.future[0]
RedoState(f) == f[1]
\* mutant of RedoFuture: the furthest entry is dropped
RedoFutureDropsLast(f) == SubSeq(f, 1, Len(f) - 1)

\* history.future = history.future.slice(1)
RedoFuture(f) == SubSeq(f, 2, Len(f))

Redo ==
    /\ pre' = Snapshot
    /\ UNCHANGED <<handlers, listeners, nextEntry>>
    /\ IF Len(future) = 0
       THEN /\ last' = [op |-> "redo", outcome |-> "returned", ret |-> FALSE]
            /\ calls' = <<>>
            /\ UNCHANGED <<state, past, future>>
       ELSE /\ past' = RedoPast(past, state)
            /\ state' = RedoState(future)
            /\ future' = RedoFuture(future)
            /\ \E now \in Timestamps :
                 calls' = Notify(Matching(listeners, "REDO"), state',
                                 [action |-> "REDO", timestamp |-> now])
            /\ last' = [op |-> "redo", outcome |-> "returned", ret |-> TRUE,
                        afterUndo |-> AfterUndo]

(* ---------------------------- specification ---------------------------- *)

\* createStore(config): the initial state object is config.initialState
InitialState == [id |-> 0, val |-> [count |-> 0]]

InitStore ==
    /\ handlers \in HandlerTables
    /\ state = InitialState
    /\ past = <<>>
    /\ future = <<>>
    /\ listeners = <<>>
    /\ nextEntry = 0
    /\ calls = <<>>
    /\ last = [op |-> "createStore", outcome |-> "returned"]
    /\ pre = [state |-> InitialState, past |-> <<>>, future |-> <<>>]

\* no run shape is followed
NoScenario == [phase |-> "off"]

Init ==
    /\ InitStore
    /\ frozen = {}
    /\ scn = NoScenario

Next ==
    \/ Dispatch /\ UNCHANGED <<frozen, scn>>
    \/ Subscribe /\ UNCHANGED <<frozen, scn>>
    \/ Unsubscribe /\ UNCHANGED <<frozen, scn>>
    \/ Undo /\ UNCHANGED <<frozen, scn>>
    \/ Redo /\ UNCHANGED <<frozen, scn>>

Spec == Init /\ [][Next]_vars

(* ------------------- runs of dispatches, undos, redos ------------------ *)

\* A fresh store, on which the caller makes n dispatches that return, then k
\* undos, then j redos, then one more dispatch.  scn follows the shape of the
\* run: the phase, n, k, j and the objects that were the state at the start and
\* after each of the n dispatches.  Any other call ends the shape (NoScenario).
FreshScenario ==
    [phase |-> "dispatching", n |-> 0, k |-> 0, j |-> 0,
     states |-> <<InitialState>>]

ScenarioStep ==
    scn' =
        IF scn.phase \in {"off", "closed"} THEN NoScenario
        ELSE IF last'.op = "dispatch" THEN
            IF last'.outcome # "returned" THEN NoScenario
            ELSE IF scn.phase = "dispatching"
                 THEN [scn EXCEPT !.n = @ + 1, !.states = Append(@, state')]
                 ELSE [scn EXCEPT !.phase = "closed"]
        ELSE IF last'.op = "undo" THEN
            IF scn.phase \in {"dispatching", "undoing"} /\ scn.k < scn.n
            THEN [scn EXCEPT !.phase = "undoing", !.k = @ + 1]
            ELSE NoScenario
        ELSE
            IF scn.phase \in {"undoing", "redoing"} /\ scn.j < scn.k
            THEN [scn EXCEPT !.phase = "redoing", !.j = @ + 1]
            ELSE NoScenario

InitScenario ==
    /\ InitStore
    /\ frozen = {}
    /\ scn = FreshScenario

NextScenario ==
    \/ DispatchUpTo(MaxScenario) /\ ScenarioStep /\ UNCHANGED frozen
    \/ Undo /\ ScenarioStep /\ UNCHANGED frozen
    \/ Redo /\ ScenarioStep /\ UNCHANGED frozen

SpecScenario == InitScenario /\ [][NextScenario]_vars

(* --------------------- objects held outside the store ------------------ *)

\* The store keeps the caller's initialState object itself (state =
\* config.initialState), getState returns produce(state, draft => draft) and
\* the history reads produce(history.past, draft => draft): produce gives back
\* its base when the recipe changes nothing, so the caller receives the store's
\* own objects.  What protects them is immer's freezing: everything produce
\* returns is frozen deeply (immer 7 and later, the README's "frozen copy").
\* frozen is the set of frozen objects.  The base of a produce call that did
\* change the draft (the object pushed onto past) is not frozen by that call.
Ids(seq) == {seq[i].id : i \in DOMAIN seq}

\* what the caller writes into an object it holds
Mutations == {[count |-> 5]}

\* the object with identity id, wherever the store refers to it, now has val
Written(obj, id, val) == IF obj.id = id THEN [id |-> id, val |-> val] ELSE obj

WrittenSeq(seq, id, val) == [i \in DOMAIN seq |-> Written(seq[i], id, val)]

AliasDispatch ==
    /\ Dispatch
    /\ frozen' = IF last'.outcome = "returned" THEN frozen \cup {state'.id}
                 ELSE frozen
    /\ UNCHANGED scn

AliasUndo == Undo /\ UNCHANGED <<frozen, scn>>

AliasRedo == Redo /\ UNCHANGED <<frozen, scn>>

\* getState: () => produce(state, (draft) => draft)
GetState ==
    /\ last' = [op |-> "getState", outcome |-> "returned", ret |-> <<state>>]
    /\ frozen' = frozen \cup {state.id}
    /\ pre' = Snapshot
    /\ calls' = <<>>
    /\ UNCHANGED <<handlers, state, past, future, listeners, nextEntry, scn>>

\* history.past: () => produce(history.past, (draft) => draft)
HistoryPast ==
    /\ last' = [op |-> "history.past", outcome |-> "returned", ret |-> past]
    /\ frozen' = frozen \cup Ids(past)
    /\ pre' = Snapshot
    /\ calls' = <<>>
    /\ UNCHANGED <<handlers, state, past, future, listeners, nextEntry, scn>>

\* history.future: () => produce(history.future, (draft) => draft)
HistoryFuture ==
    /\ last' = [op |-> "history.future", outcome |-> "returned", ret |-> future]
    /\ frozen' = frozen \cup Ids(future)
    /\ pre' = Snapshot
    /\ calls' = <<>>
    /\ UNCHANGED <<handlers, state, past, future, listeners, nextEntry, scn>>

\* the objects the caller can write to now: the initialState object it built
\* the store from, and what the read it has just made returned
Handed ==
    {InitialState.id} \cup
    (IF last.op \in {"getState", "history.past", "history.future"}
     THEN Ids(last.ret) ELSE {})

\* the caller assigns to a property of an object it holds (obj.count = 5);
\* on a frozen object the assignment changes nothing
Mutate ==
    \E id \in Handed, val \in Mutations :
        LET applied == id \notin frozen
        IN  /\ last' = [op |-> "mutate", outcome |-> "returned", target |-> id,
                        applied |-> applied]
            /\ pre' = Snapshot
            /\ calls' = <<>>
            /\ state' = IF applied THEN Written(state, id, val) ELSE state
            /\ past' = IF applied THEN WrittenSeq(past, id, val) ELSE past
            /\ future' = IF applied THEN WrittenSeq(future, id, val) ELSE future
            /\ UNCHANGED <<handlers, listeners, nextEntry, frozen, scn>>

NextAlias ==
    \/ AliasDispatch
    \/ AliasUndo
    \/ AliasRedo
    \/ GetState
    \/ HistoryPast
    \/ HistoryFuture
    \/ Mutate

SpecAlias == Init /\ [][NextAlias]_vars

(* ------------------- listeners that re-enter the store ----------------- *)

\* What a callback does when it is invoked: "f" only reads the store,
\* "thrower" throws, "undoer" calls store.undo(), "subscriber" calls
\* store.subscribe("*", f), "unsubscriber" calls the unsubscribe function of
\* the entry subscribed right after its own.  (No callback dispatches or
\* redoes: with an undoer registered that recursion has no end.)
RoundCallbacks == {"f", "thrower", "undoer", "subscriber", "unsubscriber"}

RoundFilters == {"increment", "*"}

\* the names the caller dispatches while listeners re-enter the store
RoundActionTypes == {"increment", "add"}

\* most entries of past, and most subscribe calls, in the runs of SpecRounds
MaxRoundHist == 1
MaxRoundSubs == 2

\* the closure variables of createStore while one call of the API runs, with
\* the invocations made so far (log), the rounds begun so far, and whether an
\* exception is travelling up the stack
Store(s, p, f) ==
    [state |-> s, past |-> p, future |-> f, listeners |-> listeners,
     nextEntry |-> nextEntry, log |-> <<>>, rounds |-> <<>>, threw |-> FALSE]

\* mutant of Aborted: forEach goes on after a listener threw
NeverAborted(st) == FALSE

\* an exception leaves forEach: no further listener of the round is invoked
Aborted(st) == st.threw

\* mutant of Filtered: the round walks the registry as it is now
FilteredLive(ls, st, key) == Matching(st.listeners, key)

\* the array filter() returned when the round began, whatever the registry
\* has become since
Filtered(ls, st, key) == ls

\* what getState(), history.past() and history.future() return
Reads(st) == [state |-> st.state, past |-> st.past, future |-> st.future]

RECURSIVE RunUndo(_, _), RunRound(_, _, _, _, _, _)

\* the body of the callback of entry l
RunCallback(st, l, now) ==
    CASE l.listener = "f" -> st
      [] l.listener = "thrower" -> [st EXCEPT !.threw = TRUE]
      [] l.listener = "undoer" -> RunUndo(st, now)
      [] l.listener = "subscriber" ->
            [st EXCEPT !.listeners = Append(@, [id |-> st.nextEntry,
                                                actionType |-> "*",
                                                listener |-> "f"]),
                       !.nextEntry = @ + 1]
      [] l.listener = "unsubscriber" ->
            LET index == IndexOf(st.listeners, l.id + 1)
            IN  [st EXCEPT !.listeners = IF index > 0 THEN Splice(@, index)
                                         ELSE @]

\* .forEach((l) => l.listener(state, Context)) from the i-th entry on: state
\* is read from the closure variable at each invocation
RunRound(st, ls, i, key, context, round) ==
    LET entries == Filtered(ls, st, key)
    IN  IF i > Len(entries) \/ Aborted(st) THEN st
        ELSE LET l == entries[i]
                 invoked ==
                     [st EXCEPT !.log = Append(@,
                         [entry |-> l.id, listener |-> l.listener,
                          state |-> st.state, context |-> context,
                          round |-> round, begun |-> Len(st.rounds),
                          read |-> Reads(st)])]
             IN  RunRound(RunCallback(invoked, l, context.timestamp),
                          ls, i + 1, key, context, round)

\* listeners.filter(...).forEach(...) of dispatch, undo and redo
Notified(st, key, context) ==
    LET ls == Matching(st.listeners, key)
        begun == [st EXCEPT !.rounds = Append(@,
                     [key |-> key, context |-> context,
                      entries |-> [i \in DOMAIN ls |-> ls[i].id],
                      committed |-> Reads(st),
                      nextEntry |-> st.nextEntry])]
    IN  RunRound(begun, ls, 1, key, context, Len(begun.rounds))

\* undo, lines 89-91
UndoAssigned(st) ==
    [st EXCEPT !.future = UndoFuture(st.state, st.future),
               !.state = UndoState(st.past),
               !.past = UndoPast(st.past)]

\* undo
RunUndo(st, now) ==
    IF Len(st.past) = 0 THEN st
    ELSE Notified(UndoAssigned(st), "UNDO", [action |-> "UNDO", timestamp |-> now])

\* mutant of RedoAssigned: the listeners are notified before the assignments
RedoNotAssigned(st) == st

\* redo, lines 105-107
RedoAssigned(st) ==
    [st EXCEPT !.past = RedoPast(st.past, st.state),
               !.state = RedoState(st.future),
               !.future = RedoFuture(st.future)]

\* redo
RunRedo(st, now) ==
    IF Len(st.future) = 0 THEN st
    ELSE Notified(RedoAssigned(st), "REDO", [action |-> "REDO", timestamp |-> now])

\* the call is over: the closure variables are as st has them
Finished(st, call) ==
    /\ st.nextEntry <= MaxRoundSubs
    /\ state' = st.state
    /\ past' = st.past
    /\ future' = st.future
    /\ listeners' = st.listeners
    /\ nextEntry' = st.nextEntry
    /\ calls' = st.log
    /\ last' = call @@ [outcome |-> IF st.threw THEN "threw" ELSE "returned",
                        rounds |-> st.rounds,
                        registry |-> Ids(listeners)]

RoundDispatch ==
    \E actionType \in RoundActionTypes :
      \E payload \in PayloadsFor(Lookup(handlers, actionType)) :
        LET handler == Lookup(handlers, actionType)
            call == [op |-> "dispatch", actionType |-> actionType,
                     payload |-> payload]
        IN  /\ pre' = Snapshot
            /\ UNCHANGED <<handlers, frozen, scn>>
            /\ IF handler = "undefined"
               THEN /\ last' = call @@ [outcome |-> "threw", rounds |-> <<>>,
                                        registry |-> Ids(listeners)]
                    /\ calls' = <<>>
                    /\ UNCHANGED <<state, past, future, listeners, nextEntry>>
               ELSE LET r == Recipe(handler, state.val, payload)
                        h == DispatchHistory(past, state, future)
                    IN  /\ Len(past) < MaxRoundHist
                        /\ IF r.threw
                           THEN Finished([Store(state, h.past, h.future)
                                             EXCEPT !.threw = TRUE], call)
                           ELSE \E now \in Timestamps :
                                  Finished(
                                    Notified(Store(Produce(state, r.draft),
                                                   h.past, h.future),
                                             actionType,
                                             DispatchContext(actionType, payload, now)),
                                    call)

RoundUndo ==
    /\ pre' = Snapshot
    /\ UNCHANGED <<handlers, frozen, scn>>
    /\ \E now \in Timestamps :
         Finished(RunUndo(Store(state, past, future), now),
                  [op |-> "undo", ret |-> Len(past) > 0])

RoundRedo ==
    /\ pre' = Snapshot
    /\ UNCHANGED <<handlers, frozen, scn>>
    /\ \E now \in Timestamps :
         Finished(RunRedo(Store(state, past, future), now),
                  [op |-> "redo", ret |-> Len(future) > 0])

RoundSubscribe ==
    \E actionType \in RoundFilters, listener \in RoundCallbacks :
        LET entry == [id |-> nextEntry, actionType |-> actionType,
                      listener |-> listener]
        IN  /\ nextEntry < MaxRoundSubs
            /\ listeners' = Append(listeners, entry)
            /\ nextEntry' = nextEntry + 1
            /\ calls' = <<>>
            /\ last' = [op |-> "subscribe", entry |-> entry.id,
                        outcome |-> "returned", rounds |-> <<>>,
                        registry |-> Ids(listeners)]
            /\ pre' = Snapshot
            /\ UNCHANGED <<handlers, state, past, future, frozen, scn>>

InitRounds ==
    /\ Init
    /\ handlers = ReadmeHandlers

NextRounds ==
    \/ RoundDispatch
    \/ RoundUndo
    \/ RoundRedo
    \/ RoundSubscribe

SpecRounds == InitRounds /\ [][NextRounds]_vars

(* ------------------------------ properties ----------------------------- *)

\* the latest call was a dispatch of an own key of the handler table
DispatchedRegistered ==
    last.op = "dispatch" /\ last.actionType \in DOMAIN handlers

\* the latest call was a transition that ran to its end: a dispatch that
\* returned, an undo() or a redo() that returned true
Transitioned ==
    \/ last.op = "dispatch" /\ last.outcome = "returned"
    \/ last.op \in {"undo", "redo"} /\ last.ret

\* the key the latest transition matched the listeners' filters against
TransitionKey ==
    IF last.op = "dispatch" THEN last.actionType
    ELSE IF last.op = "undo" THEN "UNDO" ELSE "REDO"

\* the filter the registration with this identity was subscribed with
FilterOf(id) == listeners[IndexOf(listeners, id)].actionType

\* C1: a dispatch of a name that is not in the handler table throws and leaves
\* state, past and future as they were, and invokes no listener.
C1_UnknownActionIsAtomic ==
    (last.op = "dispatch" /\ last.actionType \notin DOMAIN handlers)
        => /\ last.outcome = "threw"
           /\ Snapshot = pre
           /\ calls = <<>>

\* C2: when a registered handler throws, state, past and future equal their
\* values before the dispatch and no listener is invoked.
C2_HandlerFailureIsAtomic ==
    (DispatchedRegistered /\ last.outcome = "threw")
        => /\ Snapshot = pre
           /\ calls = <<>>

\* what the README's handlers make of a counter value
Applied(h, val, payload) ==
    [count |-> val.count + (IF h = "increment" THEN 1 ELSE payload)]

\* C3: after a dispatch of a registered action whose handler returned, the state
\* is the handler applied to the state before the dispatch, and past is the old
\* past with that state appended as its last entry (one entry longer).
C3_DispatchAppliesHandlerAndPushes ==
    (DispatchedRegistered /\ last.outcome = "returned")
        => /\ state.val = Applied(handlers[last.actionType], pre.state.val,
                                  last.payload)
           /\ Len(past) = Len(pre.past) + 1
           /\ SubSeq(past, 1, Len(pre.past)) = pre.past
           /\ past[Len(past)] = pre.state

\* C3 witness: a dispatch that changed the state, made with a non-empty past
C3_Witness ==
    /\ DispatchedRegistered /\ last.outcome = "returned"
    /\ pre.past # <<>>
    /\ state.val # pre.state.val
    /\ pre.state # pre.past[1]

\* C4: after a dispatch of a registered action that returned, future is empty,
\* whatever it held before and also when the handler changed nothing.
C4_DispatchClearsFuture ==
    (DispatchedRegistered /\ last.outcome = "returned") => future = <<>>

\* C4 witness: a dispatch that left the state as it was, made with a non-empty
\* future
C4_Witness ==
    /\ DispatchedRegistered /\ last.outcome = "returned"
    /\ pre.future # <<>>
    /\ state.val = pre.state.val
    /\ future = <<>>

\* C5: undo() with a non-empty past returns true; the state becomes the last
\* entry of the old past, past loses that entry, and future is the old state
\* followed by the old future.
C5_UndoMovesOneSnapshot ==
    (last.op = "undo" /\ pre.past # <<>>)
        => /\ last.ret = TRUE
           /\ state = pre.past[Len(pre.past)]
           /\ past = SubSeq(pre.past, 1, Len(pre.past) - 1)
           /\ future = <<pre.state>> \o pre.future

\* C5 witness: an undo made with a non-empty future that differs from the state
C5_Witness ==
    /\ last.op = "undo" /\ last.ret
    /\ pre.past # <<>> /\ pre.future # <<>>
    /\ pre.state # pre.future[1]
    /\ pre.state # pre.past[1]

\* C6: redo() with a non-empty future returns true; the state becomes the first
\* entry of the old future, future loses that entry, and past is the old past
\* with the old state appended.
C6_RedoMovesOneSnapshot ==
    (last.op = "redo" /\ pre.future # <<>>)
        => /\ last.ret = TRUE
           /\ state = pre.future[1]
           /\ future = SubSeq(pre.future, 2, Len(pre.future))
           /\ past = pre.past \o <<pre.state>>

\* C6 witness: a redo made with two different entries in future
C6_Witness ==
    /\ last.op = "redo" /\ last.ret
    /\ Len(pre.future) = 2
    /\ pre.future[1] # pre.future[2]
    /\ state = pre.future[1]

\* C7: undo() with an empty past and redo() with an empty future return false,
\* leave state, past and future as they were and invoke no listener.
C7_EmptyStackIsNoOp ==
    /\ (last.op = "undo" /\ pre.past = <<>>)
          => (last.ret = FALSE /\ Snapshot = pre /\ calls = <<>>)
    /\ (last.op = "redo" /\ pre.future = <<>>)
          => (last.ret = FALSE /\ Snapshot = pre /\ calls = <<>>)

\* C7 witness: undo() returned false on a store that has a wildcard listener and
\* an "UNDO" listener
C7_Witness ==
    /\ last.op = "undo" /\ last.ret = FALSE
    /\ pre.past = <<>>
    /\ \E i, j \in DOMAIN listeners :
          listeners[i].actionType = "*" /\ listeners[j].actionType = "UNDO"

\* C8: a redo() made directly after an undo() that returned true restores the
\* state, the past and the future that were there before the undo.
C8_UndoRedoRoundTrip ==
    [][(last.op = "undo" /\ last.ret /\ last'.op = "redo")
          => (last'.ret /\ Snapshot' = pre)]_vars

\* C8 witness: such a redo, where the undo started with a non-empty future
C8_Witness ==
    /\ last.op = "redo" /\ last.ret /\ last.afterUndo
    /\ future # <<>>
    /\ past # <<>>

\* C9: a listener subscribed to a specific action name is invoked only by
\* dispatches of that name (not by other dispatches, by undo or by redo), and a
\* wildcard listener is invoked by every transition; for every handler table.
C9_SpecificListenersOnlyOwnAction ==
    Transitioned =>
        /\ \A k \in DOMAIN calls :
              LET filter == FilterOf(calls[k].entry)
              IN  (filter \in DOMAIN handlers /\ filter # "*")
                      => (last.op = "dispatch" /\ last.actionType = filter)
        /\ \A i \in DOMAIN listeners :
              listeners[i].actionType = "*"
                  => \E k \in DOMAIN calls : calls[k].entry = listeners[i].id

\* C10: a transition invokes the registrations whose filter matches, each
\* exactly once, in the order they were subscribed in; two registrations of the
\* same filter and callback are both invoked.
C10_ListenersInSubscriptionOrder ==
    Transitioned =>
        LET matching == {i \in DOMAIN listeners :
                            listeners[i].actionType \in {TransitionKey, "*"}}
        IN  /\ Len(calls) = Cardinality(matching)
            /\ \A i \in matching :
                  \E k \in DOMAIN calls :
                      /\ calls[k].entry = listeners[i].id
                      /\ calls[k].listener = listeners[i].listener
            /\ \A j, k \in DOMAIN calls :
                  j < k => calls[j].entry < calls[k].entry

\* C10 witness: a transition that invoked two registrations of one filter and
\* one callback
C10_Witness ==
    /\ Transitioned
    /\ Len(calls) = 2
    /\ Len(listeners) = 2
    /\ listeners[1].actionType = listeners[2].actionType
    /\ listeners[1].listener = listeners[2].listener
    /\ listeners[1].actionType # "*"

C15_NoSharedSnapshots ==
    /\ \A i \in DOMAIN past : past[i].id # state.id
    /\ \A j \in DOMAIN future : future[j].id # state.id
    /\ \A i \in DOMAIN past : \A j \in DOMAIN future : past[i].id # future[j].id

\* past, the current state and future as one sequence
Timeline(s) == s.past \o <<s.state>> \o s.future

\* C17: an undo() or redo() that returned true leaves the sequence past, state,
\* future as it was and moves the current state one place in it (undo towards
\* the oldest, redo towards the newest); only a dispatch changes the sequence.
C17_UndoRedoKeepTimeline ==
    /\ (last.op \in {"undo", "redo"} /\ last.ret)
          => /\ Timeline(Snapshot) = Timeline(pre)
             /\ Len(past) + Len(future) = Len(pre.past) + Len(pre.future)
             /\ Len(past) = Len(pre.past) + (IF last.op = "undo" THEN -1 ELSE 1)
    /\ Timeline(Snapshot) # Timeline(pre) => last.op = "dispatch"

\* C17 witness: an undo in a sequence of three different snapshots
C17_Witness ==
    /\ last.op = "undo" /\ last.ret
    /\ Len(Timeline(Snapshot)) = 3
    /\ Cardinality({Timeline(Snapshot)[i] : i \in 1..3}) = 3

\* C20: an undo() made directly after a dispatch that returned returns true and
\* restores the state and the past from before the dispatch, and future holds
\* just the state the dispatch produced; undo() returns true exactly when past
\* is not empty.
C20_DispatchUndoRestores ==
    [][/\ (last.op = "dispatch" /\ last.outcome = "returned" /\ last'.op = "undo")
            => /\ last'.ret
               /\ state' = pre.state
               /\ past' = pre.past
               /\ future' = <<state>>
       /\ last'.op = "undo" => (last'.ret <=> past # <<>>)
      ]_vars

\* C20 witness: such an undo, made after two dispatches
C20_Witness ==
    /\ last.op = "undo" /\ last.ret /\ last.afterDispatch
    /\ Len(future) = 1
    /\ Len(past) = 1
    /\ past[1] # state

\* C16: on a fresh store, after n dispatches that returned, k <= n undos and
\* j <= k redos, every undo and redo returned true, past holds the initial state
\* and the states after dispatches 1..n-k+j-1 (oldest first), the state is the
\* one after dispatch n-k+j, future holds the states after dispatches
\* n-k+j+1..n (nearest first); a further dispatch empties future.
C16_DispatchUndoRedoShape ==
    /\ scn.phase \in {"dispatching", "undoing", "redoing"}
          => LET m == scn.n - scn.k + scn.j
             IN  /\ last.op \in {"undo", "redo"} => last.ret
                 /\ Len(past) = m
                 /\ past = SubSeq(scn.states, 1, m)
                 /\ state = scn.states[m + 1]
                 /\ Len(future) = scn.k - scn.j
                 /\ future = SubSeq(scn.states, m + 2, scn.n + 1)
    /\ scn.phase = "closed" => future = <<>>

\* C16 witness: the README counter incremented three times, two undos, one redo
C16_Witness ==
    /\ scn.phase = "redoing" /\ scn.n = 3 /\ scn.k = 2 /\ scn.j = 1
    /\ state.val = [count |-> 2]
    /\ Len(past) = 2
    /\ past[1].val = [count |-> 0] /\ past[2].val = [count |-> 1]
    /\ Len(future) = 1
    /\ future[1].val = [count |-> 3]

\* C13: the store's state and history are never exposed by reference: no write
\* an outside holder makes to the initialState object, or to a value it got
\* from getState(), history.past() or history.future(), changes the state, the
\* past or the future of the store.
C13_NoWriteReachesTheStore ==
    last.op = "mutate" => Snapshot = pre

\* the invocations made in round r of the last call, in order
RoundCalls(r) == SelectSeq(calls, LAMBDA c : c.round = r)

EntriesOf(seq) == [i \in DOMAIN seq |-> seq[i].entry]

IsPrefix(a, b) == Len(a) <= Len(b) /\ a = SubSeq(b, 1, Len(a))

Notifying == last.op \in {"dispatch", "undo", "redo"}

\* no listener invoked in the last call re-entered the store
NoReentry == \A k \in DOMAIN calls : calls[k].listener # "undoer"

\* state, past and future as the last call's own transition leaves them
Transition ==
    CASE last.op = "dispatch" ->
            [past |-> Append(pre.past, pre.state), future |-> <<>>,
             val |-> Applied(Lookup(handlers, last.actionType),
                             pre.state.val, last.payload)]
      [] last.op = "undo" ->
            [past |-> SubSeq(pre.past, 1, Len(pre.past) - 1),
             future |-> <<pre.state>> \o pre.future,
             val |-> pre.past[Len(pre.past)].val]
      [] last.op = "redo" ->
            [past |-> Append(pre.past, pre.state),
             future |-> Tail(pre.future),
             val |-> pre.future[1].val]

\* C12: when a listener throws in the round of a dispatch, undo or redo, the
\* call throws, no listener is invoked after the one that threw, and the
\* transition stays: state, past and future are the ones committed before the
\* round (the post-transition values when no listener re-entered the store).
C12_ListenerThrowKeepsTransition ==
    (Notifying /\ \E k \in DOMAIN calls : calls[k].listener = "thrower")
        => /\ last.outcome = "threw"
           /\ calls[Len(calls)].listener = "thrower"
           /\ \A k \in 1..(Len(calls) - 1) : calls[k].listener # "thrower"
           /\ Snapshot = last.rounds[Len(last.rounds)].committed
           /\ NoReentry => /\ past = Transition.past
                           /\ future = Transition.future
                           /\ state.val = Transition.val

\* C12 witness: a dispatch changed the state, the first of two matching
\* listeners threw
C12_Witness ==
    /\ last.op = "dispatch" /\ last.outcome = "threw"
    /\ Len(calls) = 1 /\ calls[1].listener = "thrower"
    /\ Len(last.rounds[1].entries) = 2
    /\ state # pre.state
    /\ past = <<pre.state>>

\* C14: every listener invoked in the round of a dispatch is passed the state
\* that dispatch's handler produced and that dispatch's context, also after an
\* earlier listener of the round has called undo.
C14_DispatchRoundPassesNewState ==
    last.op = "dispatch"
        => \A k \in DOMAIN calls :
              calls[k].round = 1
                  => /\ calls[k].state.val = Transition.val
                     /\ calls[k].context =
                            DispatchContext(last.actionType, last.payload,
                                            calls[k].context.timestamp)

\* C18: the listeners of a round are fixed when it begins: the entries invoked
\* in a round are the ones that matched at its start, in order (a prefix when
\* the call threw), all subscribed before the round began; an entry whose
\* unsubscribe function a callback has called is invoked afterwards only in
\* rounds that had already begun, and no entry is invoked that was neither in
\* the registry when the call started nor subscribed during it.
C18_RoundListenersFixedAtStart ==
    /\ Notifying
          => \A r \in DOMAIN last.rounds :
                LET invoked == EntriesOf(RoundCalls(r))
                    fixed == last.rounds[r].entries
                IN  /\ IsPrefix(invoked, fixed)
                    /\ last.outcome = "returned" => invoked = fixed
                    /\ \A i \in DOMAIN invoked :
                          invoked[i] < last.rounds[r].nextEntry
    /\ \A k \in DOMAIN calls, m \in DOMAIN calls :
          (k < m /\ calls[k].listener = "unsubscriber"
                 /\ calls[m].entry = calls[k].entry + 1)
              => calls[m].round <= calls[k].begun
    /\ \A k \in DOMAIN calls :
          \/ calls[k].entry \in last.registry
          \/ calls[k].entry \in Ids(listeners) \ last.registry

\* C18 witness: in the round of a dispatch the first listener unsubscribed the
\* second, which was still invoked in that round and is no longer registered
C18_Witness ==
    /\ last.op = "dispatch" /\ last.outcome = "returned"
    /\ Len(calls) = 2
    /\ calls[1].listener = "unsubscriber"
    /\ calls[2].entry = calls[1].entry + 1
    /\ calls[2].round = calls[1].round
    /\ Len(listeners) = 1

\* C19: listeners are notified after the transition is committed: when no
\* listener re-enters the store, what a listener reads inside its callback is
\* the state it was passed, the past and the future of the finished transition
\* (for dispatch: past ends with the pre-dispatch state, future is empty), the
\* same values the caller reads after the call.
C19_ListenersReadCommittedStore ==
    (Notifying /\ NoReentry)
        => \A k \in DOMAIN calls :
              /\ calls[k].read.state = calls[k].state
              /\ calls[k].read = Snapshot
              /\ calls[k].read.past = Transition.past
              /\ calls[k].read.future = Transition.future
              /\ calls[k].read.state.val = Transition.val

\* C19 witness: a listener invoked by a dispatch that changed the state
C19_Witness ==
    /\ last.op = "dispatch" /\ NoReentry
    /\ Len(calls) > 0
    /\ calls[1].state # pre.state
    /\ calls[1].read.past = <<pre.state>>

====
